---------------------------- MODULE Spec2Model ----------------------------
(***************************************************************************)
(* Cat-vs-dog SVM notebook (src/SVM_ImageClassification.ipynb) as a state *)
(* machine: the notebook's cells run top to bottom; a raised exception    *)
(* stops the run.  Text (file names, directory names, comments, CSV       *)
(* output) is a sequence of one-character strings.                        *)
(***************************************************************************)
EXTENDS Integers, Sequences, FiniteSets, TLC

VARIABLES
    fs,               \* the input directory trees 'train' and 'test'
    pc,               \* the statement the run is at
    error,            \* the exception that stopped the run ("" while none)
    X_train, y_train, train_filenames,
    X_test, y_test, test_filenames,
    called,           \* the files handed to process_image, in call order
    linear_model, rbf_model, sigmoid_model,
    results_df1, results_df2, results_df3,
    printed,          \* what evaluate_model printed, in order
    files,            \* the output directory: file name -> content
    opened,           \* the file names opened for writing, in order
    last_export       \* the arguments of the latest export_to_csv call

vars == <<fs, pc, error, X_train, y_train, train_filenames,
          X_test, y_test, test_filenames, called,
          linear_model, rbf_model, sigmoid_model,
          results_df1, results_df2, results_df3, printed,
          files, opened, last_export>>

-----------------------------------------------------------------------------
(* Bounds of the model. *)

\* entries listed in one root folder
MaxEntries == 2
\* entries listed in one class subdirectory
MaxFiles == 2
\* characters in a generated directory name
MaxNameLen == 4
\* rows of a generated test split or result table
MaxRows == 2
\* largest label handed to map_label (the smallest is -1)
MaxLabel == 2

-----------------------------------------------------------------------------
(* Sequences. *)

SeqsUpTo(S, n) == UNION {[1..k -> S] : k \in 0..n}

\* os.listdir never lists a name twice
DistinctNames(s) == \A i, j \in 1..Len(s) : i # j => s[i].name # s[j].name

RECURSIVE Flatten(_)
Flatten(ss) == IF ss = <<>> THEN <<>> ELSE Head(ss) \o Flatten(Tail(ss))

-----------------------------------------------------------------------------
(* The filesystem the loader reads. *)

\* a file's content as cv2.imread sees it: a decodable picture or not
Unreadable == [readable |-> FALSE, tone |-> "none"]
\* a decoded picture of `width' columns and `height' rows
Image(t, w, h) == [readable |-> TRUE, tone |-> t, width |-> w, height |-> h]
Picture(t) == Image(t, 96, 128)

\* an entry of a class subdirectory
File(n, img) == [name |-> n, img |-> img]

\* an entry of a root folder: a class subdirectory or a plain file
Dir(n, fl) == [name |-> n, isdir |-> TRUE, files |-> fl]
Plain(n) == [name |-> n, isdir |-> FALSE, files |-> <<>>]

Root(es) == [exists |-> TRUE, entries |-> es]
MissingRoot == [exists |-> FALSE, entries |-> <<>>]

-----------------------------------------------------------------------------
(* process_image *)

\* skimage's hog on a 64x64 picture: 9 orientations, 8x8 cells, 2x2 blocks
FeatureLength == ((64 \div 8) - 2 + 1) * ((64 \div 8) - 2 + 1) * 2 * 2 * 9

\* cv2.cvtColor(img, cv2.COLOR_BGR2GRAY): one channel, same resolution
cvtColor(img) == [tone |-> img.tone, width |-> img.width, height |-> img.height]

\* cv2.resize(img_gray, dsize): dsize is (width, height), whatever the input
resize(gray, dsize) == [gray EXCEPT !.width = dsize[1], !.height = dsize[2]]

\* skimage.feature.hog with feature_vector=True: whole cells only, one block
\* per position of a cells_per_block window, flattened; numpy refuses a
\* negative block count
hog(gray, orientations, pixels_per_cell, cells_per_block) ==
    LET n_cells_row == gray.height \div pixels_per_cell[1]
        n_cells_col == gray.width \div pixels_per_cell[2]
        n_blocks_row == (n_cells_row - cells_per_block[1]) + 1
        n_blocks_col == (n_cells_col - cells_per_block[2]) + 1
    IN  [ok |-> n_blocks_row >= 0 /\ n_blocks_col >= 0,
         features |-> [length |-> n_blocks_row * n_blocks_col * cells_per_block[1]
                                   * cells_per_block[2] * orientations,
                       tone |-> gray.tone]]

NoFeatures == [ok |-> FALSE, features |-> [length |-> 0, tone |-> "none"]]

\* a plausible slip: an undecodable file yields a blank descriptor, no error
process_image_lenient(img) ==
    [ok |-> TRUE, features |-> [length |-> FeatureLength, tone |-> img.tone]]

\* a plausible slip: the descriptor taken at the picture's own resolution
process_image_unresized(img) ==
    IF img.readable
    THEN LET h == hog(cvtColor(img), 9, <<8, 8>>, <<2, 2>>)
         IN  IF h.ok THEN [ok |-> TRUE, features |-> h.features] ELSE NoFeatures
    ELSE NoFeatures

\* cv2.imread returns None for what it cannot decode and cv2.cvtColor
\* raises on None; otherwise grayscale, resize to 64x64, hog
process_image(img) ==
    IF img.readable
    THEN LET img_gray == resize(cvtColor(img), <<64, 64>>)
             h == hog(img_gray, 9, <<8, 8>>, <<2, 2>>)
         IN  IF h.ok THEN [ok |-> TRUE, features |-> h.features] ELSE NoFeatures
    ELSE NoFeatures

-----------------------------------------------------------------------------
(* process_directory *)

\* a plausible slip: a dot anywhere in the name
IsHiddenAnyDot(filename) == \E i \in 1..Len(filename) : filename[i] = "."

\* filename.startswith('.')
IsHidden(filename) == Len(filename) >= 1 /\ filename[1] = "."

\* The for loop of process_directory over the listing, from entry k on.
\* acc = [ok, images, filenames, calls]; an exception leaves the loop at once.
RECURSIVE DirectoryLoop(_, _, _, _)
DirectoryLoop(dirname, listing, k, acc) ==
    IF k > Len(listing) THEN acc
    ELSE LET filename == listing[k].name IN
         IF IsHidden(filename)
         THEN DirectoryLoop(dirname, listing, k + 1, acc)
         ELSE LET r == process_image(listing[k].img)
                  calls == Append(acc.calls, [dir |-> dirname, name |-> filename])
              IN  IF ~r.ok
                  THEN [acc EXCEPT !.ok = FALSE, !.calls = calls]
                  ELSE DirectoryLoop(dirname, listing, k + 1,
                         [ok |-> TRUE,
                          images |-> Append(acc.images, r.features),
                          filenames |-> Append(acc.filenames, filename),
                          calls |-> calls])

\* a plausible slip: one label per listed entry, hidden ones included
process_directory_label_per_entry(dir, label_code) ==
    LET r == DirectoryLoop(dir.name, dir.files, 1,
                 [ok |-> TRUE, images |-> <<>>, filenames |-> <<>>, calls |-> <<>>])
    IN  [ok |-> r.ok,
         images |-> r.images,
         labels |-> [i \in 1..Len(dir.files) |-> label_code],
         filenames |-> r.filenames,
         calls |-> r.calls]

\* images, [label_code] * len(images), filenames
process_directory(dir, label_code) ==
    LET r == DirectoryLoop(dir.name, dir.files, 1,
                 [ok |-> TRUE, images |-> <<>>, filenames |-> <<>>, calls |-> <<>>])
    IN  [ok |-> r.ok,
         images |-> r.images,
         labels |-> [i \in 1..Len(r.images) |-> label_code],
         filenames |-> r.filenames,
         calls |-> r.calls]

-----------------------------------------------------------------------------
(* load_images_and_features *)

\* Python's  sub in s  for strings
Contains(sub, s) ==
    \E i \in 1..(Len(s) + 1) :
        /\ i + Len(sub) - 1 <= Len(s)
        /\ SubSeq(s, i, i + Len(sub) - 1) = sub

\* a plausible slip: the test anchored at the start of the name
LabelCodePrefixOnly(label) ==
    IF Len(label) >= 3 /\ SubSeq(label, 1, 3) = <<"c", "a", "t">> THEN 0 ELSE 1

\* label_code = 0 if "cat" in label else 1
LabelCode(label) == IF Contains(<<"c", "a", "t">>, label) THEN 0 ELSE 1

\* The for loop of load_images_and_features over the root listing.
RECURSIVE RootLoop(_, _, _)
RootLoop(entries, k, acc) ==
    IF k > Len(entries) THEN acc
    ELSE IF ~entries[k].isdir
         THEN RootLoop(entries, k + 1, acc)
         ELSE LET d == process_directory(entries[k], LabelCode(entries[k].name))
                  calls == acc.calls \o d.calls
              IN  IF ~d.ok
                  THEN [acc EXCEPT !.ok = FALSE, !.error = "cv2.error", !.calls = calls]
                  ELSE RootLoop(entries, k + 1,
                         [ok |-> TRUE, error |-> "",
                          images |-> acc.images \o d.images,
                          labels |-> acc.labels \o d.labels,
                          filenames |-> acc.filenames \o d.filenames,
                          calls |-> calls])

\* os.listdir raises FileNotFoundError for a folder that does not exist
load_images_and_features(root) ==
    LET empty == [ok |-> TRUE, error |-> "", images |-> <<>>, labels |-> <<>>,
                  filenames |-> <<>>, calls |-> <<>>]
    IN  IF ~root.exists
        THEN [empty EXCEPT !.ok = FALSE, !.error = "FileNotFoundError"]
        ELSE RootLoop(root.entries, 1, empty)

-----------------------------------------------------------------------------
(* map_label *)

Cat == <<"c", "a", "t">>
Dog == <<"d", "o", "g">>

\* a plausible slip: an exclusive 0-or-1 switch with a third answer
map_label_strict(numeric_label) ==
    IF numeric_label = 0 THEN Cat
    ELSE IF numeric_label = 1 THEN Dog ELSE <<"?">>

\* a plausible slip: the condition never selects 'dog'
map_label_constant(numeric_label) == Cat

\* return 'cat' if numeric_label == 0 else 'dog'
map_label(numeric_label) == IF numeric_label = 0 THEN Cat ELSE Dog

-----------------------------------------------------------------------------
(* svm.SVC: fit and predict, as far as the notebook observes them *)

NoModel == [fitted |-> FALSE, kernel |-> "", classes |-> {}, decide |-> <<>>]

Range(s) == {s[i] : i \in 1..Len(s)}

\* SVC.fit raises ValueError on an empty table (np.array([]) is not 2-D) and
\* on labels of fewer than two classes
FitFails(X, y) == Len(X) = 0 \/ Len(X) # Len(y) \/ Cardinality(Range(y)) < 2

\* the decision functions a fit on (X, y) can produce over the descriptors
\* in Space: SVC.predict answers with one of the classes seen in y
Decisions(Space, y) == [Space -> Range(y)]

Fitted(kernel, y, d) ==
    [fitted |-> TRUE, kernel |-> kernel, classes |-> Range(y), decide |-> d]

\* SVC.predict raises NotFittedError before fit and ValueError on an empty table
PredictFails(model, X) == ~model.fitted \/ Len(X) = 0

predict(model, X) == [i \in 1..Len(X) |-> model.decide[X[i]]]

-----------------------------------------------------------------------------
(* evaluate_model (create_results_df builds the same table) *)

NoTable == <<>>

\* one row of the DataFrame: 'Correct?' is  y_pred == y_test, element by element
ResultRow(filename, pred, actual) ==
    [Filename |-> filename,
     Prediction |-> map_label(pred),
     Actual |-> map_label(actual),
     Correct |-> (pred = actual)]

\* pd.DataFrame raises ValueError when its columns differ in length
FrameFails(y_pred, y, filenames) ==
    Len(y_pred) # Len(y) \/ Len(filenames) # Len(y)

ResultsFrame(y_pred, y, filenames) ==
    [i \in 1..Len(y) |-> ResultRow(filenames[i], y_pred[i], y[i])]

\* accuracy_score(y_test, y_pred) as the fraction correct / total
AccuracyScore(y, y_pred) ==
    [correct |-> Cardinality({i \in 1..Len(y) : y[i] = y_pred[i]}),
     total |-> Len(y)]

\* a plausible slip: rows in reverse order of the split
evaluate_model_reversed(model, X, y, filenames) ==
    LET y_pred == predict(model, X)
        n == Len(y)
    IN  [ok |-> ~(PredictFails(model, X) \/ FrameFails(y_pred, y, filenames)),
         results_df |-> [i \in 1..n |->
                           ResultRow(filenames[n + 1 - i], y_pred[n + 1 - i], y[n + 1 - i])],
         accuracy |-> AccuracyScore(y, y_pred)]

evaluate_model(model, X, y, filenames) ==
    LET y_pred == predict(model, X)
    IN  IF PredictFails(model, X) \/ FrameFails(y_pred, y, filenames)
        THEN [ok |-> FALSE, results_df |-> NoTable,
              accuracy |-> [correct |-> 0, total |-> 0]]
        ELSE [ok |-> TRUE,
              results_df |-> ResultsFrame(y_pred, y, filenames),
              accuracy |-> AccuracyScore(y, y_pred)]

-----------------------------------------------------------------------------
(* export_to_csv *)

NL == "\n"
CR == "\r"
QUOTE == "\""
COMMA == ","

RECURSIVE Join(_, _)
Join(fields, sep) ==
    IF fields = <<>> THEN <<>>
    ELSE IF Len(fields) = 1 THEN fields[1]
    ELSE fields[1] \o <<sep>> \o Join(Tail(fields), sep)

\* csv.writer under QUOTE_MINIMAL (Python 3.11, the notebook's kernel): a
\* field holding the delimiter, the quote character or a character of the
\* line terminator (os.linesep, "\n") is wrapped in quotes, its quotes
\* doubled; a carriage return is not such a character
NeedsQuoting(field) == \E i \in 1..Len(field) : field[i] \in {COMMA, QUOTE, NL}

RECURSIVE DoubleQuotes(_)
DoubleQuotes(field) ==
    IF field = <<>> THEN <<>>
    ELSE (IF Head(field) = QUOTE THEN <<QUOTE, QUOTE>> ELSE <<Head(field)>>)
         \o DoubleQuotes(Tail(field))

\* a plausible slip: fields written as they are
CsvFieldRaw(field) == field

CsvField(field) ==
    IF NeedsQuoting(field)
    THEN <<QUOTE>> \o DoubleQuotes(field) \o <<QUOTE>>
    ELSE field

BoolText(b) == IF b THEN <<"T", "r", "u", "e">> ELSE <<"F", "a", "l", "s", "e">>

HeaderRow == <<"F", "i", "l", "e", "n", "a", "m", "e", ",", "P", "r", "e", "d", "i", "c", "t", "i", "o", "n", ",", "A", "c", "t", "u", "a", "l", ",", "C", "o", "r", "r", "e", "c", "t", "?">>

CsvRow(row) ==
    Join(<<CsvField(row.Filename), CsvField(row.Prediction),
           CsvField(row.Actual), CsvField(BoolText(row.Correct))>>, COMMA)

RECURSIVE CsvRows(_)
CsvRows(df) ==
    IF df = <<>> THEN <<>> ELSE CsvRow(Head(df)) \o <<NL>> \o CsvRows(Tail(df))

\* df.to_csv(f, index=False): the column names, then one record per row
to_csv(df) == HeaderRow \o <<NL>> \o CsvRows(df)

\* f.write(f'# {header_comment}\n') then df.to_csv(f, index=False)
ExportedText(df, header_comment) ==
    <<"#", " ">> \o header_comment \o <<NL>> \o to_csv(df)

-----------------------------------------------------------------------------
(* The inputs the model draws from. *)

Tones == {"dark", "light"}
FeatureSpace == {process_image(Picture(t)).features : t \in Tones}

Listings(S, n) == UNION {{s \in [1..k -> S] : DistinctNames(s)} : k \in 0..n}

VisibleA == <<"a", ".", "j">>
VisibleB == <<"b">>
HiddenA == <<".", "a">>

\* entries a class subdirectory can list: pictures, a hidden file, and
\* visible entries cv2 cannot decode (a text file, a nested folder)
SampleFiles ==
    {File(VisibleA, Picture("dark")), File(VisibleA, Unreadable),
     File(VisibleB, Picture("light")), File(HiddenA, Unreadable)}

HiddenDir == <<".", "d">>
StructNames == {Cat, Dog, HiddenDir}

StructEntries ==
    {Dir(n, fl) : n \in StructNames, fl \in Listings(SampleFiles, MaxFiles)}
    \cup {Plain(n) : n \in StructNames}

\* roots of every shape, over few names
StructRoots == {MissingRoot} \cup {Root(es) : es \in Listings(StructEntries, MaxEntries)}

NameChars == {"c", "a", "t", "C"}
GeneratedNames == SeqsUpTo(NameChars, MaxNameLen) \ {<<>>}

\* roots of one class subdirectory, over every generated name
NameRoots ==
    {Root(<<Dir(n, fl)>>) :
        n \in GeneratedNames,
        fl \in {<<File(VisibleA, Picture("dark"))>>,
                <<File(VisibleB, Picture("light")), File(VisibleA, Picture("dark"))>>}}

LoadRoots == StructRoots \cup NameRoots

\* the dataset folders of a whole run
PipeEntries ==
    {Dir(Cat, <<File(VisibleA, Picture("dark"))>>),
     Dir(Cat, <<File(VisibleB, Picture("light")), File(VisibleA, Picture("dark"))>>),
     Dir(Dog, <<File(VisibleB, Picture("light"))>>),
     Dir(Dog, <<File(HiddenA, Unreadable), File(VisibleA, Picture("dark")),
                File(VisibleB, Picture("light"))>>),
     Dir(Dog, <<File(VisibleB, Unreadable)>>),
     Dir(Dog, <<>>),
     Plain(<<"n">>)}

PipeRoots ==
    {MissingRoot, Root(<<>>)}
    \cup {Root(<<d>>) : d \in PipeEntries}
    \cup {Root(es) : es \in {p \in PipeEntries \X PipeEntries : p[1].name # p[2].name}}

OutFiles == {"linear.csv", "rbf.csv", "sigmoid.csv"}

LinearComment == <<"R", "e", "s", "u", "l", "t", "s", " ", "f", "r", "o", "m", " ", "l", "i", "n", "e", "a", "r", " ", "S", "V", "M", " ", "m", "o", "d", "e", "l">>
RbfComment == <<"R", "e", "s", "u", "l", "t", "s", " ", "f", "r", "o", "m", " ", "R", "B", "F", " ", "S", "V", "M", " ", "m", "o", "d", "e", "l">>
SigmoidComment == <<"R", "e", "s", "u", "l", "t", "s", " ", "f", "r", "o", "m", " ", "s", "i", "g", "m", "o", "i", "d", " ", "S", "V", "M", " ", "m", "o", "d", "e", "l">>

NoFile == [exists |-> FALSE, text |-> <<>>]

\* what an earlier run left at the path: an export of three rows
EarlierTable ==
    <<ResultRow(VisibleA, 0, 0), ResultRow(VisibleB, 1, 0), ResultRow(VisibleA, 1, 1)>>
StaleFile == [exists |-> TRUE, text |-> ExportedText(EarlierTable, LinearComment)]

\* the output directory before the run: empty, or holding an earlier run's files
PriorOutputs == {[f \in OutFiles |-> NoFile], [f \in OutFiles |-> StaleFile]}

-----------------------------------------------------------------------------
(* The run: the notebook's cells, top to bottom. *)

Unset == <<>>
NoExport == [df |-> NoTable, filename |-> "", header_comment |-> <<>>, before |-> NoFile]

Start(position) ==
    /\ pc = position
    /\ error = ""
    /\ X_train = Unset /\ y_train = Unset /\ train_filenames = Unset
    /\ X_test = Unset /\ y_test = Unset /\ test_filenames = Unset
    /\ called = <<>>
    /\ linear_model = NoModel /\ rbf_model = NoModel /\ sigmoid_model = NoModel
    /\ results_df1 = NoTable /\ results_df2 = NoTable /\ results_df3 = NoTable
    /\ printed = <<>>
    /\ opened = <<>>
    /\ last_export = NoExport

Init ==
    /\ Start("load_train")
    /\ fs \in [train : PipeRoots, test : PipeRoots]
    /\ files \in PriorOutputs

\* the statement after each one, in notebook order
AfterStep(position) ==
    CASE position = "load_train" -> "load_test"
      [] position = "load_test" -> "fit_linear"
      [] position = "fit_linear" -> "fit_rbf"
      [] position = "fit_rbf" -> "fit_sigmoid"
      [] position = "fit_sigmoid" -> "eval_linear"
      [] position = "eval_linear" -> "eval_rbf"
      [] position = "eval_rbf" -> "eval_sigmoid"
      [] position = "eval_sigmoid" -> "export_linear"
      [] position = "export_linear" -> "export_rbf"
      [] position = "export_rbf" -> "export_sigmoid"
      [] OTHER -> "done"

\* a plausible slip: the error is recorded and the run carries on
RaiseAndContinue(e) == pc' = AfterStep(pc) /\ error' = e

\* an uncaught exception ends the run
Raise(e) == pc' = "failed" /\ error' = e

Tagged(root, calls) ==
    [i \in 1..Len(calls) |-> [root |-> root, dir |-> calls[i].dir, name |-> calls[i].name]]

\* X_train, y_train, train_filenames = load_images_and_features('train')
LoadTrain ==
    /\ pc = "load_train"
    /\ LET r == load_images_and_features(fs.train) IN
       /\ called' = called \o Tagged("train", r.calls)
       /\ IF r.ok
          THEN /\ X_train' = r.images
               /\ y_train' = r.labels
               /\ train_filenames' = r.filenames
               /\ pc' = "load_test"
               /\ error' = error
          ELSE /\ Raise(r.error)
               /\ UNCHANGED <<X_train, y_train, train_filenames>>
    /\ UNCHANGED <<fs, X_test, y_test, test_filenames,
                   linear_model, rbf_model, sigmoid_model,
                   results_df1, results_df2, results_df3, printed,
                   files, opened, last_export>>

\* X_test, y_test, test_filenames = load_images_and_features('test')
LoadTest ==
    /\ pc = "load_test"
    /\ LET r == load_images_and_features(fs.test) IN
       /\ called' = called \o Tagged("test", r.calls)
       /\ IF r.ok
          THEN /\ X_test' = r.images
               /\ y_test' = r.labels
               /\ test_filenames' = r.filenames
               /\ pc' = "fit_linear"
               /\ error' = error
          ELSE /\ Raise(r.error)
               /\ UNCHANGED <<X_test, y_test, test_filenames>>
    /\ UNCHANGED <<fs, X_train, y_train, train_filenames,
                   linear_model, rbf_model, sigmoid_model,
                   results_df1, results_df2, results_df3, printed,
                   files, opened, last_export>>

FitUnchanged ==
    UNCHANGED <<fs, X_train, y_train, train_filenames, X_test, y_test,
                test_filenames, called, results_df1, results_df2, results_df3,
                printed, files, opened, last_export>>

\* linear_model = svm.SVC(kernel='linear'); linear_model.fit(X_train, y_train)
FitLinear ==
    /\ pc = "fit_linear"
    /\ IF FitFails(X_train, y_train)
       THEN Raise("ValueError") /\ UNCHANGED linear_model
       ELSE /\ \E d \in Decisions(FeatureSpace, y_train) :
                 linear_model' = Fitted("linear", y_train, d)
            /\ pc' = "fit_rbf"
            /\ error' = error
    /\ UNCHANGED <<rbf_model, sigmoid_model>>
    /\ FitUnchanged

\* rbf_model = svm.SVC(kernel='rbf', random_state = 0); rbf_model.fit(X_train, y_train)
FitRbf ==
    /\ pc = "fit_rbf"
    /\ IF FitFails(X_train, y_train)
       THEN Raise("ValueError") /\ UNCHANGED rbf_model
       ELSE /\ \E d \in Decisions(FeatureSpace, y_train) :
                 rbf_model' = Fitted("rbf", y_train, d)
            /\ pc' = "fit_sigmoid"
            /\ error' = error
    /\ UNCHANGED <<linear_model, sigmoid_model>>
    /\ FitUnchanged

\* sigmoid_model = svm.SVC(kernel='sigmoid'); sigmoid_model.fit(X_train, y_train)
FitSigmoid ==
    /\ pc = "fit_sigmoid"
    /\ IF FitFails(X_train, y_train)
       THEN Raise("ValueError") /\ UNCHANGED sigmoid_model
       ELSE /\ \E d \in Decisions(FeatureSpace, y_train) :
                 sigmoid_model' = Fitted("sigmoid", y_train, d)
            /\ pc' = "eval_linear"
            /\ error' = error
    /\ UNCHANGED <<linear_model, rbf_model>>
    /\ FitUnchanged

EvalUnchanged ==
    UNCHANGED <<fs, X_train, y_train, train_filenames, X_test, y_test,
                test_filenames, called, linear_model, rbf_model, sigmoid_model,
                files, opened, last_export>>

Report(r) == [table |-> r.results_df, accuracy |-> r.accuracy]

\* results_df1 = evaluate_model(linear_model, X_test, y_test, test_filenames)
EvalLinear ==
    /\ pc = "eval_linear"
    /\ LET r == evaluate_model(linear_model, X_test, y_test, test_filenames) IN
       IF r.ok
       THEN /\ results_df1' = r.results_df
            /\ printed' = Append(printed, Report(r))
            /\ pc' = "eval_rbf"
            /\ error' = error
       ELSE Raise("ValueError") /\ UNCHANGED <<results_df1, printed>>
    /\ UNCHANGED <<results_df2, results_df3>>
    /\ EvalUnchanged

\* results_df2 = evaluate_model(rbf_model, X_test, y_test, test_filenames)
EvalRbf ==
    /\ pc = "eval_rbf"
    /\ LET r == evaluate_model(rbf_model, X_test, y_test, test_filenames) IN
       IF r.ok
       THEN /\ results_df2' = r.results_df
            /\ printed' = Append(printed, Report(r))
            /\ pc' = "eval_sigmoid"
            /\ error' = error
       ELSE Raise("ValueError") /\ UNCHANGED <<results_df2, printed>>
    /\ UNCHANGED <<results_df1, results_df3>>
    /\ EvalUnchanged

\* results_df3 = evaluate_model(sigmoid_model, X_test, y_test, test_filenames)
EvalSigmoid ==
    /\ pc = "eval_sigmoid"
    /\ LET r == evaluate_model(sigmoid_model, X_test, y_test, test_filenames) IN
       IF r.ok
       THEN /\ results_df3' = r.results_df
            /\ printed' = Append(printed, Report(r))
            /\ pc' = "export_linear"
            /\ error' = error
       ELSE Raise("ValueError") /\ UNCHANGED <<results_df3, printed>>
    /\ UNCHANGED <<results_df1, results_df2>>
    /\ EvalUnchanged

ExportUnchanged ==
    UNCHANGED <<fs, X_train, y_train, train_filenames, X_test, y_test,
                test_filenames, called, linear_model, rbf_model, sigmoid_model,
                results_df1, results_df2, results_df3, printed>>

\* a plausible slip: the file opened in append mode
WrittenAppending(before, df, header_comment) ==
    [exists |-> TRUE, text |-> before.text \o ExportedText(df, header_comment)]

\* open(filename, 'w') truncates; the with block writes and closes
Written(before, df, header_comment) ==
    [exists |-> TRUE, text |-> ExportedText(df, header_comment)]

\* export_to_csv(df, filename, header_comment); open raises OSError when the
\* path cannot be opened for writing, and the file is then left as it was
export_to_csv(df, filename, header_comment, next) ==
    \/ /\ Raise("OSError")
       /\ UNCHANGED <<files, opened, last_export>>
    \/ /\ files' = [files EXCEPT ![filename] = Written(files[filename], df, header_comment)]
       /\ opened' = Append(opened, filename)
       /\ last_export' = [df |-> df, filename |-> filename,
                          header_comment |-> header_comment, before |-> files[filename]]
       /\ pc' = next
       /\ error' = error

\* export_to_csv(results_df1, 'linear.csv', 'Results from linear SVM model')
ExportLinear ==
    /\ pc = "export_linear"
    /\ export_to_csv(results_df1, "linear.csv", LinearComment, "export_rbf")
    /\ ExportUnchanged

\* a plausible slip: a copied line that still names the first table
ExportRbfFirstTable ==
    /\ pc = "export_rbf"
    /\ export_to_csv(results_df1, "rbf.csv", RbfComment, "export_sigmoid")
    /\ ExportUnchanged

\* export_to_csv(results_df2, 'rbf.csv', 'Results from RBF SVM model')
ExportRbf ==
    /\ pc = "export_rbf"
    /\ export_to_csv(results_df2, "rbf.csv", RbfComment, "export_sigmoid")
    /\ ExportUnchanged

\* export_to_csv(results_df3, 'sigmoid.csv', 'Results from sigmoid SVM model')
ExportSigmoid ==
    /\ pc = "export_sigmoid"
    /\ export_to_csv(results_df3, "sigmoid.csv", SigmoidComment, "done")
    /\ ExportUnchanged

Next ==
    \/ LoadTrain \/ LoadTest
    \/ FitLinear \/ FitRbf \/ FitSigmoid
    \/ EvalLinear \/ EvalRbf \/ EvalSigmoid
    \/ ExportLinear \/ ExportRbf \/ ExportSigmoid

Spec == Init /\ [][Next]_vars

-----------------------------------------------------------------------------
(* The loader alone, on every root folder within the bounds. *)

InitLoad ==
    /\ Start("load_train")
    /\ fs \in [train : LoadRoots, test : {MissingRoot}]
    /\ files = [f \in OutFiles |-> NoFile]

NextLoad == LoadTrain

SpecLoad == InitLoad /\ [][NextLoad]_vars

-----------------------------------------------------------------------------
(* The loader on pictures of every resolution within the bounds. *)

MaxSide == 70
Sides == 1..MaxSide
Images == {Image(t, w, h) : t \in Tones, w \in Sides, h \in Sides}

\* what the second file of the folder holds
Companions == {Image("light", 64, 64), Image("dark", 1, MaxSide), Unreadable}

ImageRoots ==
    {Root(<<Dir(Cat, <<File(VisibleA, a), File(VisibleB, b)>>)>>) :
        a \in Images, b \in Companions}

InitImage ==
    /\ Start("load_train")
    /\ fs \in [train : ImageRoots, test : {MissingRoot}]
    /\ files = [f \in OutFiles |-> NoFile]

NextImage == LoadTrain

SpecImage == InitImage /\ [][NextImage]_vars

-----------------------------------------------------------------------------
(* evaluate_model alone, on any decision function and any labels. *)

WideLabels == -1..MaxLabel

InitEval ==
    /\ pc = "eval_sigmoid"
    /\ error = ""
    /\ fs = [train |-> MissingRoot, test |-> MissingRoot]
    /\ X_train = Unset /\ y_train = Unset /\ train_filenames = Unset
    /\ \E n \in 0..MaxRows :
          /\ X_test \in [1..n -> FeatureSpace]
          /\ y_test \in [1..n -> WideLabels]
          /\ test_filenames = [i \in 1..n |-> IF i % 2 = 1 THEN VisibleA ELSE VisibleB]
    /\ called = <<>>
    /\ linear_model = NoModel /\ rbf_model = NoModel
    /\ \E d \in [FeatureSpace -> WideLabels] :
          sigmoid_model = [fitted |-> TRUE, kernel |-> "sigmoid",
                           classes |-> {d[x] : x \in FeatureSpace}, decide |-> d]
    /\ results_df1 = NoTable /\ results_df2 = NoTable /\ results_df3 = NoTable
    /\ printed = <<>>
    /\ files = [f \in OutFiles |-> NoFile]
    /\ opened = <<>>
    /\ last_export = NoExport

NextEval == EvalSigmoid

SpecEval == InitEval /\ [][NextEval]_vars

-----------------------------------------------------------------------------
(* export_to_csv alone, on any result table, comment and output file. *)

WithComma == <<"a", COMMA, "b">>
WithQuote == <<"a", QUOTE>>
WithNewline == <<"a", NL, "b">>
WithReturn == <<"a", CR, "b">>

CsvNames == {VisibleA, WithComma, WithQuote, WithNewline, WithReturn}

TwoLineComment == <<"m", NL, "n">>
ReturnComment == <<"m", CR, "n">>
CsvComments == {LinearComment, TwoLineComment, ReturnComment}

CsvTableRows ==
    {ResultRow(n, pa[1], pa[2]) : n \in CsvNames, pa \in {<<0, 0>>, <<0, 1>>, <<1, 1>>}}
CsvTables == UNION {[1..k -> CsvTableRows] : k \in 1..MaxRows}

InitCsv ==
    /\ Start("export_any")
    /\ fs = [train |-> MissingRoot, test |-> MissingRoot]
    /\ files \in PriorOutputs

ExportAny ==
    /\ pc = "export_any"
    /\ \E df \in CsvTables, c \in CsvComments, f \in OutFiles :
          export_to_csv(df, f, c, "done")
    /\ ExportUnchanged

NextCsv == ExportAny

SpecCsv == InitCsv /\ [][NextCsv]_vars

-----------------------------------------------------------------------------
(* Claims about the loader, checked under SpecLoad. *)

TrainReturned == pc = "load_test"

\* the class subdirectory and the file a process_image call read
DirNamed(root, n) == CHOOSE e \in Range(root.entries) : e.isdir /\ e.name = n
FileNamed(dir, n) == CHOOSE f \in Range(dir.files) : f.name = n

StartsWithDot(n) == n # <<>> /\ Head(n) = "."
NotDotFile(f) == ~StartsWithDot(f.name)

\* the entries of every subdirectory of the root, dot names left out, in
\* enumeration order
VisibleOf(e) ==
    IF e.isdir
    THEN LET v == SelectSeq(e.files, NotDotFile)
         IN  [i \in 1..Len(v) |-> [dir |-> e.name, name |-> v[i].name, img |-> v[i].img]]
    ELSE <<>>

AllVisible(root) == Flatten([k \in 1..Len(root.entries) |-> VisibleOf(root.entries[k])])

NamesOf(s) == [i \in 1..Len(s) |-> s[i].name]

HasCat(n) == \E k \in 1..Len(n) : k + 2 <= Len(n) /\ n[k] = "c" /\ n[k + 1] = "a" /\ n[k + 2] = "t"

\* C1: when the traversal of a root completes, features, labels and
\* filenames have one length, and at every index the filename, the label and
\* the descriptor are those of the one file process_image was given for it.
C1_AlignedTriple ==
    TrainReturned =>
        /\ Len(X_train) = Len(train_filenames)
        /\ Len(y_train) = Len(train_filenames)
        /\ Len(called) = Len(train_filenames)
        /\ \A i \in 1..Len(train_filenames) :
              LET d == DirNamed(fs.train, called[i].dir)
                  f == FileNamed(d, called[i].name)
              IN  /\ train_filenames[i] = f.name
                  /\ y_train[i] = LabelCode(d.name)
                  /\ f.img.readable
                  /\ X_train[i] = [length |-> FeatureLength, tone |-> f.img.tone]

C1_Witness ==
    /\ TrainReturned
    /\ Len(train_filenames) >= 2
    /\ \E k \in 1..Len(fs.train.entries) :
          LET e == fs.train.entries[k]
          IN  e.isdir /\ e.files # <<>> /\ \A j \in 1..Len(e.files) : StartsWithDot(e.files[j].name)

\* C2: every sample of a class subdirectory is labelled 0 when the
\* subdirectory's name holds "cat" somewhere, case-sensitively, and 1
\* otherwise; every label of a loaded split is 0 or 1.
C2_LabelBySubstring ==
    TrainReturned =>
        \A i \in 1..Len(y_train) :
            /\ y_train[i] \in {0, 1}
            /\ y_train[i] = 0 <=> HasCat(called[i].dir)

C2_Witness ==
    /\ TrainReturned
    /\ Len(fs.train.entries) = 1
    /\ fs.train.entries[1].name = <<"a", "c", "a", "t">>
    /\ y_train = <<0, 0>>

\* C3: the returned filenames are exactly the entries of the root's
\* subdirectories whose names do not start with a dot, each once, in
\* enumeration order; no dot name is ever handed to process_image; a root
\* entry that is not a directory contributes nothing.
C3_VisibleEntriesOnly ==
    /\ \A i \in 1..Len(called) : ~StartsWithDot(called[i].name)
    /\ TrainReturned => train_filenames = NamesOf(AllVisible(fs.train))

C3_Witness ==
    /\ TrainReturned
    /\ train_filenames # <<>>
    /\ \E k \in 1..Len(fs.train.entries) : ~fs.train.entries[k].isdir
    /\ \E k \in 1..Len(fs.train.entries) :
          \E j \in 1..Len(fs.train.entries[k].files) :
              StartsWithDot(fs.train.entries[k].files[j].name)

\* the first undecodable entry among the visible ones (0 when there is none)
FirstBad(v) ==
    IF \A i \in 1..Len(v) : v[i].img.readable THEN 0
    ELSE CHOOSE i \in 1..Len(v) :
            /\ ~v[i].img.readable
            /\ \A j \in 1..(i - 1) : v[j].img.readable

\* C4: when process_image fails on a visible entry, the load fails with that
\* error at that entry: nothing is returned and nothing after the entry is
\* read; a load that returns covers every visible entry.
C4_FailFast ==
    (pc # "load_train" /\ fs.train.exists) =>
        LET v == AllVisible(fs.train)
            b == FirstBad(v)
        IN  IF b > 0
            THEN /\ pc = "failed" /\ error = "cv2.error"
                 /\ X_train = Unset /\ y_train = Unset /\ train_filenames = Unset
                 /\ Len(called) = b
                 /\ \A i \in 1..b : called[i].dir = v[i].dir /\ called[i].name = v[i].name
            ELSE /\ TrainReturned
                 /\ Len(train_filenames) = Len(v)
                 /\ Len(called) = Len(v)

C4_Witness ==
    /\ pc = "failed" /\ error = "cv2.error"
    /\ Len(called) >= 2
    /\ Len(AllVisible(fs.train)) > Len(called)
    /\ called[Len(called)].dir # AllVisible(fs.train)[Len(AllVisible(fs.train))].dir

-----------------------------------------------------------------------------
(* Claim about map_label, checked under SpecEval. *)

\* C5: map_label answers 'cat' for 0 and 'dog' for every other integer, and
\* nothing else, whatever the label.
C5_MapLabelTotal ==
    pc = "export_linear" =>
        /\ Len(results_df3) = Len(y_test)
        /\ \A i \in 1..Len(y_test) :
              LET p == sigmoid_model.decide[X_test[i]]
                  row == results_df3[i]
              IN  /\ row.Actual \in {<<"c", "a", "t">>, <<"d", "o", "g">>}
                  /\ row.Prediction \in {<<"c", "a", "t">>, <<"d", "o", "g">>}
                  /\ row.Actual = <<"c", "a", "t">> <=> y_test[i] = 0
                  /\ row.Prediction = <<"c", "a", "t">> <=> p = 0

C5_Witness ==
    /\ pc = "export_linear"
    /\ Len(y_test) = 2
    /\ y_test[1] = 2 /\ results_df3[1].Actual = <<"d", "o", "g">>
    /\ y_test[2] = -1 /\ results_df3[2].Actual = <<"d", "o", "g">>
    /\ sigmoid_model.decide[X_test[1]] = 0

-----------------------------------------------------------------------------
(* Claims about evaluation and the run, checked under Spec. *)

\* evaluate_model has returned for the k-th model
Evaluated(k) == Len(printed) >= k

\* the table evaluate_model must build for a model on the test split
TableIsOf(df, model) ==
    /\ Len(df) = Len(test_filenames)
    /\ Len(df) = Len(y_test)
    /\ \A i \in 1..Len(df) :
          LET p == model.decide[X_test[i]] IN
          /\ df[i].Filename = test_filenames[i]
          /\ df[i].Actual = map_label(y_test[i])
          /\ df[i].Prediction = map_label(p)
          /\ df[i].Correct <=> (p = y_test[i])

Column(df, c) == [i \in 1..Len(df) |-> df[i][c]]

\* C6: each result table has one row per test sample in the split's order,
\* with that sample's filename, mapped actual label, mapped prediction and
\* correctness; the Filename and Actual columns agree across the three
\* tables of a run.
C6_ResultTable ==
    /\ Evaluated(1) => TableIsOf(results_df1, linear_model)
    /\ Evaluated(2) => TableIsOf(results_df2, rbf_model)
    /\ Evaluated(3) =>
          /\ TableIsOf(results_df3, sigmoid_model)
          /\ Column(results_df1, "Filename") = Column(results_df3, "Filename")
          /\ Column(results_df2, "Filename") = Column(results_df3, "Filename")
          /\ Column(results_df1, "Actual") = Column(results_df3, "Actual")
          /\ Column(results_df2, "Actual") = Column(results_df3, "Actual")

C6_Witness ==
    /\ Evaluated(3)
    /\ Len(results_df1) >= 3
    /\ results_df1 # results_df2
    /\ \E i, j \in 1..Len(results_df1) : results_df1[i].Correct /\ ~results_df1[j].Correct
    /\ \E i, j \in 1..Len(results_df1) : results_df1[i].Actual # results_df1[j].Actual

\* C7: the printed accuracy is (rows whose Prediction equals Actual) / (rows),
\* and a row's Correct? flag is true exactly when its Prediction text equals
\* its Actual text.
C7_AccuracyMatchesTable ==
    \A k \in 1..Len(printed) :
        LET t == printed[k].table IN
        /\ printed[k].accuracy.total = Len(t)
        /\ printed[k].accuracy.correct =
              Cardinality({i \in 1..Len(t) : t[i].Prediction = t[i].Actual})
        /\ \A i \in 1..Len(t) : t[i].Correct <=> (t[i].Prediction = t[i].Actual)

C7_Witness ==
    /\ Len(printed) = 3
    /\ printed[1].accuracy.total = 3
    /\ printed[1].accuracy.correct = 2
    /\ printed[2].accuracy.correct = 1

\* the position of each output file's model among the evaluations
EvalIndex(f) ==
    CASE f = "linear.csv" -> 1 [] f = "rbf.csv" -> 2 [] f = "sigmoid.csv" -> 3

\* C10: an output file is written only after its model's evaluation has
\* completed; a failed step ends the run, so a file not yet written then
\* keeps what it held before the run.
C10_NoWriteBeforeEvaluation ==
    \A f \in OutFiles :
        /\ (\E i \in 1..Len(opened) : opened[i] = f) =>
              /\ Evaluated(EvalIndex(f))
              /\ CASE f = "linear.csv" -> results_df1 # NoTable
                   [] f = "rbf.csv" -> results_df2 # NoTable
                   [] f = "sigmoid.csv" -> results_df3 # NoTable
        /\ (\A i \in 1..Len(opened) : opened[i] # f) => files[f] \in {NoFile, StaleFile}
        /\ (pc = "failed" /\ ~Evaluated(3)) => opened = <<>>

C10_Witness ==
    /\ pc = "failed"
    /\ error = "ValueError"
    /\ sigmoid_model.fitted
    /\ Len(X_test) = 0
    /\ ~Evaluated(1)
    /\ opened = <<>>
    /\ files["linear.csv"] = StaleFile

-----------------------------------------------------------------------------
(* Claim about the order of the run, checked under Spec. *)

StepOrder ==
    <<"load_train", "load_test", "fit_linear", "fit_rbf", "fit_sigmoid",
      "eval_linear", "eval_rbf", "eval_sigmoid",
      "export_linear", "export_rbf", "export_sigmoid", "done">>

StepIndex(p) == CHOOSE i \in 1..Len(StepOrder) : StepOrder[i] = p

FittedOnTrain(model, kernel) ==
    model.fitted /\ model.kernel = kernel /\ model.classes = Range(y_train)

IsSplitOf(X, y, filenames, root) ==
    LET r == load_images_and_features(root)
    IN  r.ok /\ X = r.images /\ y = r.labels /\ filenames = r.filenames

\* what a complete run leaves behind
CompleteRun ==
    /\ called = Tagged("train", load_images_and_features(fs.train).calls)
                \o Tagged("test", load_images_and_features(fs.test).calls)
    /\ IsSplitOf(X_train, y_train, train_filenames, fs.train)
    /\ IsSplitOf(X_test, y_test, test_filenames, fs.test)
    /\ FittedOnTrain(linear_model, "linear")
    /\ FittedOnTrain(rbf_model, "rbf")
    /\ FittedOnTrain(sigmoid_model, "sigmoid")
    /\ Len(printed) = 3
    /\ printed[1].table = results_df1 /\ TableIsOf(results_df1, linear_model)
    /\ printed[2].table = results_df2 /\ TableIsOf(results_df2, rbf_model)
    /\ printed[3].table = results_df3 /\ TableIsOf(results_df3, sigmoid_model)
    /\ opened = <<"linear.csv", "rbf.csv", "sigmoid.csv">>
    /\ files["linear.csv"].text = ExportedText(results_df1, LinearComment)
    /\ files["rbf.csv"].text = ExportedText(results_df2, RbfComment)
    /\ files["sigmoid.csv"].text = ExportedText(results_df3, SigmoidComment)

\* exports only after the three evaluations, evaluations only after the
\* three fits, fits only after both loads
OrderKept ==
    /\ opened # <<>> => Len(printed) = 3
    /\ printed # <<>> =>
          linear_model.fitted /\ rbf_model.fitted /\ sigmoid_model.fitted
    /\ (linear_model.fitted \/ rbf_model.fitted \/ sigmoid_model.fitted) =>
          /\ IsSplitOf(X_train, y_train, train_filenames, fs.train)
          /\ IsSplitOf(X_test, y_test, test_filenames, fs.test)

\* one step of the run: the next one in order or the end of the run, and
\* each name assigned by its own step alone
OneStep ==
    /\ pc \notin {"done", "failed"}
    /\ pc' = StepOrder[StepIndex(pc) + 1] \/ pc' = "failed"
    /\ pc # "load_train" => UNCHANGED <<X_train, y_train, train_filenames>>
    /\ pc # "load_test" => UNCHANGED <<X_test, y_test, test_filenames>>
    /\ pc \notin {"load_train", "load_test"} => UNCHANGED called
    /\ pc # "fit_linear" => UNCHANGED linear_model
    /\ pc # "fit_rbf" => UNCHANGED rbf_model
    /\ pc # "fit_sigmoid" => UNCHANGED sigmoid_model
    /\ pc # "eval_linear" => UNCHANGED results_df1
    /\ pc # "eval_rbf" => UNCHANGED results_df2
    /\ pc # "eval_sigmoid" => UNCHANGED results_df3
    /\ pc \notin {"eval_linear", "eval_rbf", "eval_sigmoid"} => UNCHANGED printed
    /\ pc # "export_linear" => files'["linear.csv"] = files["linear.csv"]
    /\ pc # "export_rbf" => files'["rbf.csv"] = files["rbf.csv"]
    /\ pc # "export_sigmoid" => files'["sigmoid.csv"] = files["sigmoid.csv"]
    /\ Len(printed') <= Len(printed) + 1
    /\ Len(opened') <= Len(opened) + 1

\* C12: a complete run is load train, load test, fit linear, rbf, sigmoid on
\* the training arrays, evaluate each once on the test split, export each
\* table once to its own kernel's file, in that order; no export precedes its
\* evaluation and no evaluation precedes its fit.
C12_StepOrder ==
    /\ [](OrderKept /\ (pc = "done" => CompleteRun))
    /\ [][OneStep]_vars

C12_Witness ==
    /\ pc = "done"
    /\ X_train # X_test
    /\ results_df1 # results_df2
    /\ results_df2 # results_df3
    /\ results_df1 # results_df3
    /\ last_export.before = StaleFile

-----------------------------------------------------------------------------
(* Claim about the descriptor, checked under SpecImage. *)

\* the pictures the files of a root folder hold
PicturesOf(root) ==
    {f.img : f \in UNION {Range(e.files) : e \in Range(root.entries)}}

\* C11: process_image gives every readable picture, whatever its resolution,
\* a descriptor of length ((64/8) - 2 + 1)^2 * 2 * 2 * 9 = 1764, so the
\* features of a loaded split all have that one length.
C11_FixedLength ==
    /\ FeatureLength = 1764
    /\ \A img \in PicturesOf(fs.train) :
          img.readable =>
             /\ process_image(img).ok
             /\ process_image(img).features.length = 1764
    /\ TrainReturned =>
          \A i \in 1..Len(X_train) : X_train[i].length = 1764

C11_Witness ==
    /\ TrainReturned
    /\ Len(X_train) = 2
    /\ \E a, b \in PicturesOf(fs.train) :
          /\ a.width > 64 /\ a.height < 8
          /\ b.width = 1 /\ b.height = MaxSide

-----------------------------------------------------------------------------
(* Claims about the exporter, checked under SpecCsv. *)

IsBreak(c) == c = NL \/ c = CR
HasBreak(t) == \E i \in 1..Len(t) : IsBreak(t[i])
HasReturn(t) == \E i \in 1..Len(t) : t[i] = CR

\* two runs of segments joined: the last segment of the first run continues
\* in the first segment of the second
Glue(l, r) ==
    SubSeq(l, 1, Len(l) - 1) \o <<l[Len(l)] \o r[1]>> \o SubSeq(r, 2, Len(r))

\* the text from lo to hi cut at its NL characters
RECURSIVE CutLines(_, _, _)
CutLines(text, lo, hi) ==
    IF lo > hi THEN <<<<>>>>
    ELSE IF lo = hi
    THEN (IF text[lo] = NL THEN <<<<>>, <<>>>> ELSE <<<<text[lo]>>>>)
    ELSE LET mid == (lo + hi) \div 2
         IN  Glue(CutLines(text, lo, mid), CutLines(text, mid + 1, hi))

\* the NL-terminated lines of a text
Lines(text) ==
    LET cut == CutLines(text, 1, Len(text))
    IN  IF cut[Len(cut)] = <<>> THEN SubSeq(cut, 1, Len(cut) - 1) ELSE cut

\* A CSV reader (RFC 4180, as Python's csv.reader): fields are split at
\* commas, records at line breaks, a quoted field may hold both, and a
\* doubled quote inside one is a quote.  One character in one mode: the
\* mode after it, and what it adds to the records read so far.
Literal(c) == <<<<<<c>>>>>>
Nothing == <<<<<<>>>>>>
FieldEnd == <<<<<<>>, <<>>>>>>
RecordEnd == <<<<<<>>>>, <<<<>>>>>>

ReadChar(mode, c) ==
    CASE mode = "quoted" ->
            IF c = QUOTE THEN [mode |-> "closing", recs |-> Nothing]
            ELSE [mode |-> "quoted", recs |-> Literal(c)]
      [] mode = "closing" /\ c = QUOTE -> [mode |-> "quoted", recs |-> Literal(QUOTE)]
      [] mode = "start" /\ c = QUOTE -> [mode |-> "quoted", recs |-> Nothing]
      [] OTHER ->
            IF c = COMMA THEN [mode |-> "start", recs |-> FieldEnd]
            ELSE IF IsBreak(c) THEN [mode |-> "start", recs |-> RecordEnd]
            ELSE [mode |-> "field", recs |-> Literal(c)]

\* two runs of records joined: the last field of the last record of the
\* first run continues in the first field of the second run
GlueRecords(l, r) ==
    SubSeq(l, 1, Len(l) - 1) \o <<Glue(l[Len(l)], r[1])>> \o SubSeq(r, 2, Len(r))

RECURSIVE ReadRange(_, _, _, _)
ReadRange(text, lo, hi, mode) ==
    IF lo > hi THEN [mode |-> mode, recs |-> Nothing]
    ELSE IF lo = hi THEN ReadChar(mode, text[lo])
    ELSE LET mid == (lo + hi) \div 2
             l == ReadRange(text, lo, mid, mode)
             r == CASE l.mode = "start" -> ReadRange(text, mid + 1, hi, "start")
                    [] l.mode = "field" -> ReadRange(text, mid + 1, hi, "field")
                    [] l.mode = "quoted" -> ReadRange(text, mid + 1, hi, "quoted")
                    [] OTHER -> ReadRange(text, mid + 1, hi, "closing")
         IN  [mode |-> r.mode, recs |-> GlueRecords(l.recs, r.recs)]

NotBlank(record) == record # <<<<>>>>

\* the records of a text, blank lines skipped
ReadCsv(text) == SelectSeq(ReadRange(text, 1, Len(text), "start").recs, NotBlank)

\* the text after its first line
SkipFirstLine(text) ==
    IF ~HasBreak(text) THEN <<>>
    ELSE LET first == CHOOSE i \in 1..Len(text) :
                          IsBreak(text[i]) /\ \A j \in 1..(i - 1) : ~IsBreak(text[j])
         IN  SubSeq(text, first + 1, Len(text))

Exported == opened # <<>>

TrueText == <<"T", "r", "u", "e">>
FalseText == <<"F", "a", "l", "s", "e">>
ColumnNames == <<<<"F", "i", "l", "e", "n", "a", "m", "e">>,
                 <<"P", "r", "e", "d", "i", "c", "t", "i", "o", "n">>,
                 <<"A", "c", "t", "u", "a", "l">>,
                 <<"C", "o", "r", "r", "e", "c", "t", "?">>>>

FieldsOf(row) ==
    <<row.Filename, row.Prediction, row.Actual, IF row.Correct THEN TrueText ELSE FalseText>>

\* the file is the comment line, the header row and one line per table row
FileIsCommentHeaderRows(text, df, header_comment) ==
    LET L == Lines(text) IN
    /\ Len(L) = Len(df) + 2
    /\ L[1] = <<"#", " ">> \o header_comment
    /\ L[2] = Join(ColumnNames, COMMA)
    /\ \A i \in 1..Len(df) : ReadCsv(L[i + 2]) = <<FieldsOf(df[i])>>

NoBreaksIn(df, header_comment) ==
    /\ ~HasBreak(header_comment)
    /\ \A i \in 1..Len(df) : ~HasBreak(df[i].Filename)

\* C8 as stated: after a successful export the file is "# <comment>", the
\* header row and one data row per table row, N + 2 lines in all, whatever
\* the comment and the filenames.
C8_Original ==
    Exported =>
        FileIsCommentHeaderRows(files[last_export.filename].text,
                                last_export.df, last_export.header_comment)

\* C8 amended: the same, when neither the comment nor a filename of the
\* table holds a line-break character; what the file held before is gone.
C8_ExportedLines ==
    (Exported /\ NoBreaksIn(last_export.df, last_export.header_comment)) =>
        /\ files[last_export.filename].exists
        /\ FileIsCommentHeaderRows(files[last_export.filename].text,
                                   last_export.df, last_export.header_comment)

C8_Witness ==
    /\ Exported
    /\ NoBreaksIn(last_export.df, last_export.header_comment)
    /\ last_export.before = StaleFile
    /\ Len(last_export.df) = 2
    /\ last_export.df[1].Filename = WithComma
    /\ last_export.df[2].Filename = WithQuote
    /\ Len(Lines(files[last_export.filename].text)) = 4

\* the table read back: the records after the header, first three columns
ReadBack(text) ==
    LET recs == ReadCsv(SkipFirstLine(text)) IN
    [i \in 1..(Len(recs) - 1) |-> recs[i + 1]]

RoundTrips(text, df) ==
    LET back == ReadBack(text) IN
    /\ Len(back) = Len(df)
    /\ \A i \in 1..Len(df) :
          /\ Len(back[i]) >= 3
          /\ back[i][1] = df[i].Filename
          /\ back[i][2] = df[i].Prediction
          /\ back[i][3] = df[i].Actual

\* C9 as stated: for every table and every comment, reading the file back
\* after skipping its first line gives the filenames, predictions and
\* actual labels again, in order.
C9_Original ==
    Exported => RoundTrips(files[last_export.filename].text, last_export.df)

\* C9 amended: the same, for a comment without a line-break character and
\* filenames without a carriage return.
C9_RoundTrip ==
    (/\ Exported
     /\ ~HasBreak(last_export.header_comment)
     /\ \A i \in 1..Len(last_export.df) : ~HasReturn(last_export.df[i].Filename)) =>
        RoundTrips(files[last_export.filename].text, last_export.df)

C9_Witness ==
    /\ Exported
    /\ ~HasBreak(last_export.header_comment)
    /\ Len(last_export.df) = 2
    /\ last_export.df[1].Filename = WithNewline
    /\ last_export.df[2].Filename = WithQuote
    /\ RoundTrips(files[last_export.filename].text, last_export.df)

=============================================================================
